---- MODULE Spec2Model ----
(***************************************************************************)
(* releasebot's git.go: gitFetchCLs (history ranker), orderCLs (order      *)
(* resolver), cherryPickCLs (integration driver) and gitTagVersion         *)
(* (finalizer), as one state machine over the Work value w and the git     *)
(* checkout / Gerrit server it drives.                                     *)
(*                                                                         *)
(* A CL is identified by its position in the batch handed to the program   *)
(* (the *CL pointer); cl[u] holds its fields.  Commit hashes of the        *)
(* upstream repository are the integers 1..n, numbered by commit date, and *)
(* the empty string cl.Commit == "" is EmptyCommit.                        *)
(***************************************************************************)
EXTENDS Integers, Sequences, FiniteSets, TLC

\* ------------------------------------------------------------------ bounds
\* CLs and upstream commits of the batches gitFetchCLs is run on.
FetchCLs == 3
FetchCommits == 3
\* CLs of the batches orderCLs is run on, and the prerequisites they declare in all.
OrderBatch == 3
OrderPrereqs == 2
\* CLs of the batches cherryPickCLs is run on.
PickCLs == 2
\* CLs, upstream commits and prerequisites of the batches of a whole run.
RunCLs == 2
RunCommits == 2
RunPrereqs == 2

\* ------------------------------------------------------- program constants
EmptyCommit == 0
Unresolved == -1
ReleaseBranch == "release-branch.go1"

VARIABLES
    pc,       \* where the program is: the function about to run / running
    origin,   \* the upstream repository: anc (ancestors of each commit), tip (ref -> commit)
    CLs,      \* w.CLs: the slice of *CL, as the sequence of CL identities
    cl,       \* the CL values: Num, Commit, Ref, Prereq, Order, ReleaseBranchGerrit, ReleaseBranchCL
    args,     \* gitFetchCLs: args[3:], the refspecs fetched
    fetched,  \* gitwork's refs after git fetch: local ref name -> commit
    order,    \* gitFetchCLs: the map order (commit -> rank)
    next,     \* gitFetchCLs: the counter next
    ri,       \* gitFetchCLs: index of the next refspec of args[3:] to walk
    rankedIn, \* history: commit -> index of the pass of the loop at line 93 that ranked it
    fatal,    \* the message of the w.log.Panic that ended the run, "" while there is none
    i,        \* cherryPickCLs: index in w.CLs of the CL the loop at line 206 is at
    lastRef,  \* cherryPickCLs: lastRef
    lastCommit, \* cherryPickCLs: lastCommit
    change,   \* cherryPickCLs: change, <<>> for nil and <<c>> for a *gerrit.ChangeInfo c
    HEAD,     \* gitwork: the commit the work branch is at
    objects,  \* the commit objects known to gitwork and Gerrit: hash -> lines of the object
    nhash,    \* the number of the next commit gitwork creates
    picked,   \* what git cherry-pick made of <<tree, commit>>: TRUE applied, FALSE failed
    errors,   \* what w.logError recorded, in order
    status,   \* history: how cherryPickCLs left each CL in this run
    calls,    \* history: the commands cherryPickCLs ran for each CL in this run
    run,      \* "first", or "second" when the program was started again on the same batch
    prev,     \* history: status and ReleaseBranchGerrit of each CL at the end of the first run
    release   \* gitTagVersion: whether the changes were submitted, the tag made and pushed

fetchVars == <<args, fetched, order, next, ri, rankedIn>>
pickVars == <<i, lastRef, lastCommit, change, HEAD, objects, nhash, picked, errors,
              status, calls, run, prev, release>>
vars == <<pc, origin, CLs, cl, args, fetched, order, next, ri, rankedIn, fatal,
          i, lastRef, lastCommit, change, HEAD, objects, nhash, picked, errors,
          status, calls, run, prev, release>>

\* ------------------------------------------------------------- small helpers
Range(s) == {s[k] : k \in 1..Len(s)}

Max(S) == CHOOSE x \in S : \A y \in S : y <= x

\* A finite set of integers as the sequence of its elements, greatest first.
RECURSIVE SortDesc(_)
SortDesc(S) == IF S = {} THEN <<>> ELSE <<Max(S)>> \o SortDesc(S \ {Max(S)})

\* Go's map read: the zero value for a key that is not in the map.
Lookup(m, k) == IF k \in DOMAIN m THEN m[k] ELSE 0

\* Go's map write m[k] = v.
Store(m, k, v) == [x \in DOMAIN m \cup {k} |-> IF x = k THEN v ELSE m[x]]

\* ------------------------------------------------------------ gitFetchCLs
\* The ref of a CL's current patch set on Gerrit.
ChangeRef(u) == "refs/changes/" \o ToString(u)

\* One refspec argument "src:gerrit/src" of git fetch, and the local ref the
\* loop at line 94 cuts out of it: everything after the first colon.
Refspec(src) == [src |-> src, colon |-> ":", dst |-> "gerrit/" \o src]
LocalRef(spec) == spec.dst

\* args[3:] as built at lines 80-85: master, the release branch, then the Ref
\* of each CL that has one, in the order of w.CLs.
RECURSIVE CLRefspecs(_, _)
CLRefspecs(cls, c) ==
    IF cls = <<>> THEN <<>>
    ELSE (IF c[Head(cls)].Ref # "" THEN <<Refspec(c[Head(cls)].Ref)>> ELSE <<>>)
         \o CLRefspecs(Tail(cls), c)

FetchArgs(cls, c) == <<Refspec("master"), Refspec(ReleaseBranch)>> \o CLRefspecs(cls, c)

\* git fetch origin src:dst ... : every local ref dst now names origin's src.
GitFetch(specs) ==
    [d \in {specs[k].dst : k \in 1..Len(specs)} |->
        origin.tip[specs[CHOOSE k \in 1..Len(specs) : specs[k].dst = d].src]]

\* order as initialised at lines 88-91: -1 for the Commit of every CL.
InitialOrder(cls, c) == [h \in {c[u].Commit : u \in Range(cls)} |-> Unresolved]

\* git log --pretty=format:%H ref, split into lines: the commit the ref names
\* and its ancestors, newest commit date first.
GitLog(ref) == SortDesc({fetched[ref]} \cup origin.anc[fetched[ref]])

\* CountUnranked when every line without a rank is counted, in order or not.
RECURSIVE CountUnrankedAll(_, _, _, _)
CountUnrankedAll(lines, k, ord, n) ==
    IF k > Len(lines) THEN n
    ELSE IF Lookup(ord, lines[k]) > 0 THEN n
    ELSE CountUnrankedAll(lines, k + 1, ord, n + 1)

\* The loop at lines 97-104 from line k on: n counts the lines before the
\* first ranked one whose order is -1.
RECURSIVE CountUnranked(_, _, _, _)
CountUnranked(lines, k, ord, n) ==
    IF k > Len(lines) THEN n
    ELSE IF Lookup(ord, lines[k]) > 0 THEN n
    ELSE CountUnranked(lines, k + 1, ord,
                       IF Lookup(ord, lines[k]) = Unresolved THEN n + 1 ELSE n)

\* AssignRanks when the loop does not break at a ranked line.
RECURSIVE AssignRanksNoBreak(_, _, _, _)
AssignRanksNoBreak(lines, k, ord, n) ==
    IF k > Len(lines) THEN ord
    ELSE IF Lookup(ord, lines[k]) = Unresolved
         THEN AssignRanksNoBreak(lines, k + 1, Store(ord, lines[k], n), n - 1)
         ELSE AssignRanksNoBreak(lines, k + 1, ord, n)

\* The loop at lines 107-115 from line k on: ranks n, n-1, ... to the lines
\* whose order is -1, stopping at the first ranked one.
RECURSIVE AssignRanks(_, _, _, _)
AssignRanks(lines, k, ord, n) ==
    IF k > Len(lines) THEN ord
    ELSE IF Lookup(ord, lines[k]) > 0 THEN ord
    ELSE IF Lookup(ord, lines[k]) = Unresolved
         THEN AssignRanks(lines, k + 1, Store(ord, lines[k], n), n - 1)
         ELSE AssignRanks(lines, k + 1, ord, n)

\* line 105: the rank of the newest unranked commit of the walk.
\* StartRank when the walk does not carry next over from the walks before it.
StartRankFromOne(count, nxt) == count

StartRank(count, nxt) == count + nxt

\* lines 79-92: fetch the refs, set up order and next.
gitFetchCLs ==
    /\ pc = "gitFetchCLs"
    /\ args' = FetchArgs(CLs, cl)
    /\ fetched' = GitFetch(args')
    /\ order' = InitialOrder(CLs, cl)
    /\ next' = 0
    /\ ri' = 1
    /\ pc' = "gitFetchCLs.refs"
    /\ UNCHANGED <<origin, CLs, cl, rankedIn, fatal, pickVars>>

\* lines 93-116: one pass of the loop over args[3:].
gitFetchCLsRef ==
    /\ pc = "gitFetchCLs.refs"
    /\ ri <= Len(args)
    /\ LET lines == GitLog(LocalRef(args[ri]))
           n == StartRank(CountUnranked(lines, 1, order, 0), next)
           ord == AssignRanks(lines, 1, order, n)
       IN /\ next' = n
          /\ order' = ord
          /\ rankedIn' = [h \in DOMAIN rankedIn |->
                            IF Lookup(order, h) # Lookup(ord, h) THEN ri ELSE rankedIn[h]]
    /\ ri' = ri + 1
    /\ UNCHANGED <<pc, origin, CLs, cl, args, fetched, fatal, pickVars>>

\* lines 117-119: copy the ranks into the CLs.
gitFetchCLsEnd ==
    /\ pc = "gitFetchCLs.refs"
    /\ ri > Len(args)
    /\ cl' = [u \in DOMAIN cl |->
                IF u \in Range(CLs) THEN [cl[u] EXCEPT !.Order = order[cl[u].Commit]] ELSE cl[u]]
    /\ pc' = "orderCLs"
    /\ UNCHANGED <<origin, CLs, args, fetched, order, next, ri, rankedIn, fatal, pickVars>>

\* ---------------------------------------------------------------- orderCLs
\* What sort.Slice(cls, less by Order) may leave in cls: the same CLs in
\* nondecreasing Order.  sort.Slice is not stable, so CLs of equal Order
\* may come out in any order.
Orderings(cls) ==
    {p \in [1..Len(cls) -> Range(cls)] : \A u \in Range(cls) : \E k \in 1..Len(cls) : p[k] = u}

\* SortSlice when less compares the other way round.
SortSliceGreaterFirst(cls, c) ==
    {p \in Orderings(cls) :
        \A j, k \in 1..Len(cls) : j < k => ~(c[p[k]].Order > c[p[j]].Order)}

SortSlice(cls, c) ==
    {p \in Orderings(cls) :
        \A j, k \in 1..Len(cls) : j < k => ~(c[p[k]].Order < c[p[j]].Order)}

\* clByNum as filled at lines 148-151: a later CL of the same Num replaces an earlier one.
ClByNum(cls, c) ==
    [n \in {c[u].Num : u \in Range(cls)} |->
        cls[Max({k \in 1..Len(cls) : c[cls[k]].Num = n})]]

\* The state of the traversal: the slice order, the maps walking and walked,
\* and the panic that ended it ("" while it runs).
WalkStart == [order |-> <<>>, walking |-> {}, walked |-> {}, panic |-> ""]

\* The body of walk once cl is marked walking (lines 161-168): the loop over
\* cl.Prereq from its k-th entry on, then the append.
RECURSIVE Walk(_, _, _, _), WalkPrereqs(_, _, _, _, _)
\* WalkPrereqs when a prerequisite that is not in clByNum is passed over.
WalkPrereqsPassMissing(u, k, st, byNum, c) ==
    IF st.panic # "" THEN st
    ELSE IF k > Len(c[u].Prereq)
         THEN [st EXCEPT !.order = Append(@, u), !.walked = @ \cup {u}]
    ELSE IF c[u].Prereq[k] \notin DOMAIN byNum
         THEN WalkPrereqs(u, k + 1, st, byNum, c)
    ELSE WalkPrereqs(u, k + 1, Walk(byNum[c[u].Prereq[k]], st, byNum, c), byNum, c)

\* WalkPrereqs when the loop over cl.Prereq is left out.
WalkPrereqsAppendOnly(u, k, st, byNum, c) ==
    [st EXCEPT !.order = Append(@, u), !.walked = @ \cup {u}]

WalkPrereqs(u, k, st, byNum, c) ==
    IF st.panic # "" THEN st
    ELSE IF k > Len(c[u].Prereq)
         THEN [st EXCEPT !.order = Append(@, u), !.walked = @ \cup {u}]
    ELSE IF c[u].Prereq[k] \notin DOMAIN byNum
         THEN [st EXCEPT !.panic = "CL has prereq non-approved CL"]
    ELSE WalkPrereqs(u, k + 1, Walk(byNum[c[u].Prereq[k]], st, byNum, c), byNum, c)

\* walk (lines 153-169).
\* Walk when a CL being walked is taken for one already walked.
WalkOneVisitedMap(u, st, byNum, c) ==
    IF st.panic # "" THEN st
    ELSE IF u \in st.walked \/ u \in st.walking THEN st
    ELSE WalkPrereqs(u, 1, [st EXCEPT !.walking = @ \cup {u}], byNum, c)

Walk(u, st, byNum, c) ==
    IF st.panic # "" THEN st
    ELSE IF u \in st.walked THEN st
    ELSE IF u \in st.walking THEN [st EXCEPT !.panic = "CL cycle"]
    ELSE WalkPrereqs(u, 1, [st EXCEPT !.walking = @ \cup {u}], byNum, c)

\* The loop at lines 170-172 from the k-th CL of cls on.
RECURSIVE WalkAll(_, _, _, _, _)
WalkAll(cls, k, st, byNum, c) ==
    IF k > Len(cls) \/ st.panic # "" THEN st
    ELSE WalkAll(cls, k + 1, Walk(cls[k], st, byNum, c), byNum, c)

\* CheckDropped when the lengths are not compared.
CheckDroppedNever(st, cls) == st

\* lines 173-175: the check that no CL was dropped.
CheckDropped(st, cls) ==
    IF st.panic = "" /\ Len(st.order) # Len(cls)
    THEN [st EXCEPT !.panic = "dropped CLs during ordering"]
    ELSE st

\* lines 145-175 on the sorted slice cls: the traversal and the check.
Resolve(cls, c) == CheckDropped(WalkAll(cls, 1, WalkStart, ClByNum(cls, c), c), cls)

\* orderCLs (lines 141-178).  cls shares its array with w.CLs, so the sort
\* is visible in w.CLs even when the traversal panics before copy(cls, order).
orderCLs ==
    /\ pc = "orderCLs"
    /\ \E cls \in SortSlice(CLs, cl) :
         LET st == Resolve(cls, cl)
         IN IF st.panic # ""
            THEN /\ CLs' = cls
                 /\ fatal' = st.panic
                 /\ pc' = "panic"
            ELSE /\ CLs' = st.order
                 /\ fatal' = fatal
                 /\ pc' = "cherryPickCLs"
    /\ UNCHANGED <<origin, cl, fetchVars, pickVars>>

\* ------------------------------------------------------------ git objects
\* A commit object as git cat-file commit prints it, one record per line:
\* the tree line, one parent line per parent, the author line, the empty
\* line, the message.  A tree is the set of upstream commits whose changes
\* it holds.
RECURSIVE ParentLines(_)
ParentLines(parents) ==
    IF parents = <<>> THEN <<>>
    ELSE <<[key |-> "parent", val |-> Head(parents)]>> \o ParentLines(Tail(parents))

CommitObject(tree, parents, message) ==
    <<[key |-> "tree", val |-> tree]>> \o ParentLines(parents)
    \o <<[key |-> "author", val |-> message], [key |-> "", val |-> ""],
         [key |-> "message", val |-> message]>>

\* treeAndParentOfCommit's loop (lines 352-362) from line k on: the last
\* tree line and the last parent line before the empty line win.
RECURSIVE ScanCommit(_, _, _)
ScanCommit(lines, k, acc) ==
    IF k > Len(lines) THEN acc
    ELSE LET t == IF lines[k].key = "tree" THEN [acc EXCEPT !.tree = <<lines[k].val>>] ELSE acc
             tp == IF lines[k].key = "parent" THEN [t EXCEPT !.parent = <<lines[k].val>>] ELSE t
         IN IF lines[k].key = "" THEN tp ELSE ScanCommit(lines, k + 1, tp)

\* treeAndParentOfCommit (lines 349-367): <<>> stands for the empty string.
\* treeAndParentOfCommit when no parent line is recognised.
treeAndParentOfCommitTreeOnly(lines) ==
    [ScanCommit(lines, 1, [tree |-> <<>>, parent |-> <<>>]) EXCEPT !.parent = <<>>]

treeAndParentOfCommit(lines) == ScanCommit(lines, 1, [tree |-> <<>>, parent |-> <<>>])

\* Malformed when only the tree is looked at.
MalformedTreeOnly(tp) == tp.tree = <<>>

\* line 363: the commit blob is malformed.
Malformed(tp) == tp.tree = <<>> \/ tp.parent = <<>>

\* The tree of a commit, and HEAD^: its first parent.
TreeOf(lines) == lines[1].val
FirstParent(lines) == lines[2].val

\* The hash of the k-th commit made in gitwork.
NewHash(k) == "c" \o ToString(k)
LocalHashes == {NewHash(k) : k \in 1..(nhash - 1)}

\* origin/<release branch> as cloned by gitCheckout, and a commit that is
\* neither on the work branch nor made by the program.
BaseHash == "base"
OtherHash == "other"
BaseObjects ==
    [h \in {BaseHash, OtherHash} |->
        IF h = BaseHash THEN CommitObject({}, <<"base^">>, "base")
        ELSE CommitObject({EmptyCommit}, <<"other^">>, "other")]

\* ----------------------------------------------------------------- Gerrit
\* A gerrit.ChangeInfo: ChangeNumber, CurrentRevision, Revisions, Labels.
ChangeInfo(num, rev, trybot, review) ==
    [ChangeNumber |-> num, CurrentRevision |-> rev,
     Revisions |-> [r \in {rev} |-> [Ref |-> "refs/changes/" \o ToString(num) \o "/" \o rev]],
     Labels |-> [l \in {"TryBot-Result", "Code-Review"} |->
                   IF l = "TryBot-Result" THEN trybot ELSE review]]

\* labelValue(change, label): the vote on the label.
labelValue(c, label) == c.Labels[label]

\* change.Revisions[change.CurrentRevision].Ref
RevisionRef(c) == c.Revisions[c.CurrentRevision].Ref

\* The votes a change may carry.
TryBotVotes == {0, 1}
ReviewVotes == {1, 2}

\* What git fetch origin <ref of rev> can bring as FETCH_HEAD.  A revision
\* fetched or mailed before is what it was.  One not seen yet was made before
\* this program made any commit: measured against the commit just picked
\* (tree t on parent p) it has the same tree and parent, p as the last or as
\* the first of two parents, another parent, another tree, or no parent.
FetchHeads(rev, t, p) ==
    IF rev \in DOMAIN objects THEN {objects[rev]}
    ELSE {CommitObject(t, <<OtherHash>>, rev), CommitObject(t, <<>>, rev)} \cup
         (IF p \in LocalHashes THEN {}
          ELSE {CommitObject(t, <<p>>, rev), CommitObject(t, <<OtherHash, p>>, rev),
                CommitObject(t, <<p, OtherHash>>, rev),
                CommitObject(t \cup {EmptyCommit}, <<p>>, rev)})

\* ----------------------------------------------------------- cherryPickCLs
\* Report when it names the release branch whatever was integrated since.
ReportOnBase(u, msg) ==
    [cl |-> u, msg |-> msg, lastRef |-> ReleaseBranch, lastCommit |-> "origin/" \o ReleaseBranch,
     Ref |-> cl[u].Ref, Commit |-> cl[u].Commit]

\* w.logError(cl, msg) with the reproduction lines of the two reports.
Report(u, msg) ==
    [cl |-> u, msg |-> msg, lastRef |-> lastRef, lastCommit |-> lastCommit,
     Ref |-> cl[u].Ref, Commit |-> cl[u].Commit]
Warning(u, msg) == [cl |-> u, msg |-> msg]

Ran(u, cmds) == [calls EXCEPT ![u] = @ \o cmds]

\* continue / the end of the loop body: on to the next CL.
\* NextCL when the loop steps over a CL.
NextCLSkipsOne(k) == k + 2

NextCL(k) == k + 1

\* lines 203-204.
cherryPickCLs ==
    /\ pc = "cherryPickCLs"
    /\ lastRef' = ReleaseBranch
    /\ lastCommit' = "origin/" \o ReleaseBranch
    /\ i' = 1
    /\ pc' = "cherryPickCLs.loop"
    /\ UNCHANGED <<origin, CLs, cl, fetchVars, fatal, change, HEAD, objects, nhash, picked,
                   errors, status, calls, run, prev, release>>

\* MissingCommit when the test at line 208 never fires.
MissingCommitNever(c) == FALSE

\* line 208: the CL has no commit.
MissingCommit(c) == c.Commit = EmptyCommit

\* lines 206-211: a CL without a commit is skipped.
cherryPickSkip ==
    /\ pc = "cherryPickCLs.loop"
    /\ i <= Len(CLs)
    /\ MissingCommit(cl[CLs[i]])
    /\ status' = [status EXCEPT ![CLs[i]] = "Skipped"]
    /\ i' = NextCL(i)
    /\ UNCHANGED <<pc, origin, CLs, cl, fetchVars, fatal, lastRef, lastCommit, change, HEAD,
                   objects, nhash, picked, errors, calls, run, prev, release>>

\* What git cherry-pick --abort leaves HEAD at: where it was before the pick.
AbortedHead(before) == before

\* lines 213-224: git cherry-pick, then git commit --amend.
cherryPick ==
    /\ pc = "cherryPickCLs.loop"
    /\ i <= Len(CLs)
    /\ ~MissingCommit(cl[CLs[i]])
    /\ LET u == CLs[i]
           key == <<TreeOf(objects[HEAD]), cl[u].Commit>>
       IN \E ok \in (IF key \in DOMAIN picked THEN {picked[key]} ELSE BOOLEAN) :
            /\ picked' = Store(picked, key, ok)
            /\ IF ok
               THEN /\ objects' = Store(objects, NewHash(nhash),
                                        CommitObject(TreeOf(objects[HEAD]) \cup {cl[u].Commit},
                                                     <<HEAD>>, "[release-branch]"))
                    /\ HEAD' = NewHash(nhash)
                    /\ nhash' = nhash + 1
                    /\ calls' = Ran(u, <<"cherry-pick", "commit --amend">>)
                    /\ pc' = "cherryPickCLs.check"
                    /\ UNCHANGED <<i, errors, status>>
               ELSE /\ errors' = Append(errors, Report(u, "git cherry-pick failed"))
                    /\ HEAD' = AbortedHead(HEAD)
                    /\ calls' = Ran(u, <<"cherry-pick", "cherry-pick --abort">>)
                    /\ status' = [status EXCEPT ![u] = "Conflict"]
                    /\ i' = NextCL(i)
                    /\ UNCHANGED <<pc, objects, nhash>>
    /\ UNCHANGED <<origin, CLs, cl, fetchVars, fatal, lastRef, lastCommit, change, run, prev,
                   release>>

\* line 237: the fetched commit and the local one have the same tree and parent.
SameCommit(tp1, tp2) == tp1.tree = tp2.tree /\ tp1.parent = tp2.parent

\* lines 230-247: look for the CL's change on Gerrit and adopt it when it is
\* the commit just made.
checkGerrit ==
    /\ pc = "cherryPickCLs.check"
    /\ LET u == CLs[i]
           found == cl[u].ReleaseBranchGerrit
       IN IF found = <<>>
          THEN /\ change' = <<>>
               /\ pc' = "cherryPickCLs.build"
               /\ UNCHANGED <<objects, HEAD, calls, fatal>>
          ELSE \E fetchHead \in FetchHeads(found[1].CurrentRevision, TreeOf(objects[HEAD]),
                                           FirstParent(objects[HEAD])) :
                 LET tp1 == treeAndParentOfCommit(fetchHead)
                     tp2 == treeAndParentOfCommit(objects[HEAD])
                 IN /\ objects' = Store(objects, found[1].CurrentRevision, fetchHead)
                    /\ IF Malformed(tp1) \/ Malformed(tp2)
                       THEN /\ fatal' = "getCommitInfo: malformed commit blob"
                            /\ pc' = "panic"
                            /\ calls' = Ran(u, <<"fetch", "cat-file">>)
                            /\ UNCHANGED <<change, HEAD>>
                       ELSE IF SameCommit(tp1, tp2)
                       THEN /\ HEAD' = found[1].CurrentRevision
                            /\ change' = found
                            /\ calls' = Ran(u, <<"fetch", "cat-file", "cat-file", "reset FETCH_HEAD">>)
                            /\ pc' = "cherryPickCLs.build"
                            /\ UNCHANGED fatal
                       ELSE /\ change' = <<>>
                            /\ calls' = Ran(u, <<"fetch", "cat-file", "cat-file">>)
                            /\ pc' = "cherryPickCLs.build"
                            /\ UNCHANGED <<HEAD, fatal>>
    /\ UNCHANGED <<origin, CLs, cl, fetchVars, i, lastRef, lastCommit, nhash, picked, errors,
                   status, run, prev, release>>

\* line 252: the trybots already passed the adopted change.
\* TryBotOK when the threshold is the +2 of Code-Review.
TryBotOKAny(c) == c # <<>>

TryBotOKAtTwo(c) == c # <<>> /\ labelValue(c[1], "TryBot-Result") >= 2

TryBotOK(c) == c # <<>> /\ labelValue(c[1], "TryBot-Result") >= 1

\* lines 249-267: make.bash unless the trybots passed; roll back when it fails.
makeBash ==
    /\ pc = "cherryPickCLs.build"
    /\ LET u == CLs[i]
       IN IF TryBotOK(change)
          THEN /\ pc' = "cherryPickCLs.push"
               /\ UNCHANGED <<i, HEAD, errors, status, calls>>
          ELSE \E ok \in BOOLEAN :
                 IF ok
                 THEN /\ pc' = "cherryPickCLs.push"
                      /\ calls' = Ran(u, <<"make.bash">>)
                      /\ UNCHANGED <<i, HEAD, errors, status>>
                 ELSE /\ errors' = Append(errors, Report(u, "make.bash after git cherry-pick failed"))
                      /\ HEAD' = FirstParent(objects[HEAD])
                      /\ calls' = Ran(u, <<"make.bash", "reset HEAD^">>)
                      /\ status' = [status EXCEPT ![u] = "BuildFailed"]
                      /\ i' = NextCL(i)
                      /\ pc' = "cherryPickCLs.loop"
    /\ UNCHANGED <<origin, CLs, cl, fetchVars, fatal, lastRef, lastCommit, change, objects,
                   nhash, picked, run, prev, release>>

\* topGerritCL (lines 329-345): the changes Gerrit returns for commit:HEAD
\* after git mail.  The new patch set goes to the CL's change on the release
\* branch when there is one, to a new change otherwise.
QueryChanges(u) ==
    LET num == IF cl[u].ReleaseBranchGerrit # <<>>
               THEN cl[u].ReleaseBranchGerrit[1].ChangeNumber ELSE 1000 + u
        one == {<<ChangeInfo(num, HEAD, t, r)>> : t \in TryBotVotes, r \in ReviewVotes}
    IN {<<>>} \cup one \cup {c \o c : c \in one}

\* MissingReview when the threshold is the +1 of TryBot-Result.
MissingReviewAtOne(c) == labelValue(c, "Code-Review") < 1

\* line 277: the change lacks Code-Review +2.
MissingReview(c) == labelValue(c, "Code-Review") < 2

\* Integrate when the assignment at line 275 is missing.
IntegrateNumberOnly(c, changes) == [c EXCEPT !.ReleaseBranchCL = changes[1].ChangeNumber]

\* lines 274-275: the change is recorded in the CL.
Integrate(c, changes) ==
    [c EXCEPT !.ReleaseBranchCL = changes[1].ChangeNumber, !.ReleaseBranchGerrit = changes]

\* NeedsMail when the commit is mailed whether or not a change was adopted.
NeedsMailAlways(c) == TRUE

\* line 270: no change was adopted, the commit has to be mailed.
NeedsMail(c) == c = <<>>

\* lines 269-284: mail the commit unless a change was adopted, record the
\* change in the CL, move lastRef and lastCommit.
pushGerrit ==
    /\ pc = "cherryPickCLs.push"
    /\ LET u == CLs[i]
       IN \E changes \in (IF NeedsMail(change) THEN QueryChanges(u) ELSE {change}) :
            IF Len(changes) # 1
            THEN /\ fatal' = "cannot find git HEAD on Gerrit"
                 /\ pc' = "panic"
                 /\ calls' = Ran(u, <<"mail", "query">>)
                 /\ UNCHANGED <<cl, change, errors, lastRef, lastCommit, status, i>>
            ELSE /\ change' = changes
                 /\ cl' = [cl EXCEPT ![u] = Integrate(@, changes)]
                 /\ errors' = IF MissingReview(changes[1])
                              THEN Append(errors, Warning(u, "missing Code-Review +2"))
                              ELSE errors
                 /\ lastRef' = RevisionRef(changes[1])
                 /\ lastCommit' = changes[1].CurrentRevision
                 /\ calls' = IF NeedsMail(change) THEN Ran(u, <<"mail", "query">>) ELSE calls
                 /\ status' = [status EXCEPT ![u] = IF NeedsMail(change) THEN "Uploaded" ELSE "Reused"]
                 /\ i' = NextCL(i)
                 /\ pc' = "cherryPickCLs.loop"
                 /\ UNCHANGED fatal
    /\ UNCHANGED <<origin, CLs, fetchVars, HEAD, objects, nhash, picked, run, prev, release>>

\* line 286: the loop is over.
cherryPickCLsEnd ==
    /\ pc = "cherryPickCLs.loop"
    /\ i > Len(CLs)
    /\ pc' = "gitTagVersion"
    /\ UNCHANGED <<origin, CLs, cl, fetchVars, fatal, pickVars>>

\* The program is started again on the same batch once cherryPickCLs has
\* returned: a fresh gitwork at the same origin/<release branch>, the CLs
\* carrying the changes the first run left on Gerrit (lines 194-197).
Rerun ==
    /\ pc = "gitTagVersion"
    /\ run = "first"
    /\ run' = "second"
    /\ prev' = [status |-> status,
                 candidate |-> [u \in DOMAIN cl |-> cl[u].ReleaseBranchGerrit]]
    /\ HEAD' = BaseHash
    /\ status' = [u \in DOMAIN status |-> "Pending"]
    /\ calls' = [u \in DOMAIN calls |-> <<>>]
    /\ errors' = <<>>
    /\ change' = <<>>
    /\ pc' = "cherryPickCLs"
    /\ UNCHANGED <<origin, CLs, cl, fetchVars, fatal, i, lastRef, lastCommit, objects, nhash,
                   picked, release>>

\* ----------------------------------------------------------- gitTagVersion
\* Pushed when the return at line 299 is missing.
PushedAnyway(tagged) == TRUE

\* lines 297-301: git push origin <version> runs unless git tag failed.
Pushed(tagged) == tagged

\* lines 289-302: submit when this is the final release, tag, and push the
\* tag when git tag succeeded.
gitTagVersion ==
    /\ pc = "gitTagVersion"
    /\ \E final \in BOOLEAN, ok \in BOOLEAN :
         /\ release' = [submitted |-> final, tagged |-> ok, pushed |-> Pushed(ok)]
         /\ errors' = IF ok THEN errors ELSE Append(errors, Warning(0, "git tag failed"))
    /\ pc' = "done"
    /\ UNCHANGED <<origin, CLs, cl, fetchVars, fatal, i, lastRef, lastCommit, change, HEAD,
                   objects, nhash, picked, status, calls, run, prev>>

\* ------------------------------------------------------------------ inputs
\* Upstream repositories of n commits: commit h was made after every commit
\* below h, anc[h] is the set of h's ancestors (closed under ancestry).
Histories(n) ==
    {a \in [1..n -> SUBSET (1..n)] :
        \A h \in 1..n : /\ \A g \in a[h] : g < h /\ a[g] \subseteq a[h]}

\* A CL as the program is handed it: not yet ranked, no change on the release branch.
NewCL(u, commit, ref, prereq) ==
    [Num |-> u, Commit |-> commit, Ref |-> ref, Prereq |-> prereq, Order |-> 0,
     ReleaseBranchGerrit |-> <<>>, ReleaseBranchCL |-> 0]

\* The commits of n CLs among the commits 1..m: a CL has no commit or a
\* commit of its own.
CommitChoices(n, m) ==
    {f \in [1..n -> 0..m] : \A u, v \in 1..n : (u # v /\ f[u] # EmptyCommit) => f[u] # f[v]}

\* Directives "CL u OK (after CL p)": sequences of at most e pairs <<u, p>>,
\* p a CL of the batch or the one Num n+1 that is not in it.
RECURSIVE Directives(_, _)
Directives(n, e) ==
    IF e = 0 THEN {<<>>}
    ELSE Directives(n, e - 1) \cup
         {Append(d, <<u, p>>) : d \in {x \in Directives(n, e - 1) : Len(x) = e - 1},
                                u \in 1..n, p \in 1..(n + 1)}

\* cl.Prereq of CL u under the directives d, in the order they were given.
RECURSIVE PrereqOf(_, _)
PrereqOf(d, u) ==
    IF d = <<>> THEN <<>>
    ELSE (IF Head(d)[1] = u THEN <<Head(d)[2]>> ELSE <<>>) \o PrereqOf(Tail(d), u)

\* The variables of cherryPickCLs and gitTagVersion before they run, for n CLs.
PickStart(n) ==
    /\ i = 0
    /\ lastRef = ""
    /\ lastCommit = ""
    /\ change = <<>>
    /\ HEAD = BaseHash
    /\ objects = BaseObjects
    /\ nhash = 1
    /\ picked = <<>>
    /\ errors = <<>>
    /\ status = [u \in 1..n |-> "Pending"]
    /\ calls = [u \in 1..n |-> <<>>]
    /\ run = "first"
    /\ prev = [status |-> <<>>, candidate |-> <<>>]
    /\ release = [submitted |-> FALSE, tagged |-> FALSE, pushed |-> FALSE]

\* The program before gitFetchCLs, on a batch of n CLs over an upstream
\* repository of m commits, with at most e prerequisites declared.  A CL
\* with a commit either has no Ref (the commit is looked for on master and
\* the release branch) or has the Ref of its Gerrit change, whose current
\* patch set is the commit.  master and the release branch each name a commit.
FetchStart(n, m, e) ==
    /\ pc = "gitFetchCLs"
    /\ CLs = [u \in 1..n |-> u]
    /\ \E f \in CommitChoices(n, m) :
       \E r \in SUBSET {u \in 1..n : f[u] # EmptyCommit} :
       \E a \in Histories(m) :
       \E ma, rb \in 1..m :
       \E d \in Directives(n, e) :
          /\ cl = [u \in 1..n |->
                     NewCL(u, f[u], IF u \in r THEN ChangeRef(u) ELSE "", PrereqOf(d, u))]
          /\ origin = [anc |-> a,
                       tip |-> [x \in {"master", ReleaseBranch} \cup {ChangeRef(u) : u \in r} |->
                                  IF x = "master" THEN ma
                                  ELSE IF x = ReleaseBranch THEN rb
                                  ELSE f[CHOOSE u \in r : ChangeRef(u) = x]]]
    /\ args = <<>>
    /\ fetched = <<>>
    /\ order = <<>>
    /\ next = 0
    /\ ri = 0
    /\ rankedIn = [h \in 0..m |-> 0]
    /\ fatal = ""
    /\ PickStart(n)

\* The variables of gitFetchCLs when it is not part of the run.
NoFetch ==
    /\ origin = [anc |-> <<>>, tip |-> <<>>]
    /\ args = <<>>
    /\ fetched = <<>>
    /\ order = <<>>
    /\ next = 0
    /\ ri = 0
    /\ rankedIn = <<>>

\* The ranks gitFetchCLs leaves in n CLs of distinct commits: -1, or the CL's
\* own rank among 1..k when k of them were found.
RankChoices(n) ==
    {f \in [1..n -> {Unresolved} \cup 1..n] :
        /\ \A u, v \in 1..n : (u # v /\ f[u] > 0) => f[u] # f[v]
        /\ \A u \in 1..n : \A r \in 1..n : (f[u] > 0 /\ r < f[u]) => \E v \in 1..n : f[v] = r}

\* The change a CL may already have on the release branch.
Candidates(u) ==
    {<<>>} \cup {<<ChangeInfo(100 + u, "g" \o ToString(u), t, r)>> :
                    t \in TryBotVotes, r \in ReviewVotes}

\* gitFetchCLs alone, on batches without prerequisites.
InitFetch == FetchStart(FetchCLs, FetchCommits, 0)

NextFetch == gitFetchCLs \/ gitFetchCLsRef \/ gitFetchCLsEnd

SpecFetch == InitFetch /\ [][NextFetch]_vars

\* orderCLs alone, on ranked batches.
InitOrder ==
    /\ pc = "orderCLs"
    /\ CLs = [u \in 1..OrderBatch |-> u]
    /\ \E f \in RankChoices(OrderBatch) :
       \E d \in Directives(OrderBatch, OrderPrereqs) :
          cl = [u \in 1..OrderBatch |->
                  [NewCL(u, IF f[u] > 0 THEN f[u] ELSE EmptyCommit, "", PrereqOf(d, u))
                      EXCEPT !.Order = f[u]]]
    /\ NoFetch
    /\ fatal = ""
    /\ PickStart(OrderBatch)

NextOrder == orderCLs

SpecOrder == InitOrder /\ [][NextOrder]_vars

\* cherryPickCLs and gitTagVersion on ordered batches, run once or twice.
InitPick ==
    /\ pc = "cherryPickCLs"
    /\ CLs = [u \in 1..PickCLs |-> u]
    /\ \E e \in SUBSET (1..PickCLs) :
       \E g \in [1..PickCLs -> UNION {Candidates(u) : u \in 1..PickCLs}] :
          /\ \A u \in 1..PickCLs : g[u] \in (IF u \in e THEN {<<>>} ELSE Candidates(u))
          /\ cl = [u \in 1..PickCLs |->
                     [NewCL(u, IF u \in e THEN EmptyCommit ELSE u, "", <<>>)
                         EXCEPT !.Order = IF u \in e THEN Unresolved ELSE u,
                                !.ReleaseBranchGerrit = g[u]]]
    /\ NoFetch
    /\ fatal = ""
    /\ PickStart(PickCLs)

NextPick ==
    \/ cherryPickCLs \/ cherryPickSkip \/ cherryPick \/ checkGerrit \/ makeBash
    \/ pushGerrit \/ cherryPickCLsEnd \/ Rerun \/ gitTagVersion

SpecPick == InitPick /\ [][NextPick]_vars

\* The program is sequential and every command it runs returns: a step that
\* can be taken is taken.
FairSpecPick == SpecPick /\ WF_vars(NextPick)

\* The whole run: gitFetchCLs, orderCLs, cherryPickCLs, gitTagVersion.
Init == FetchStart(RunCLs, RunCommits, RunPrereqs)

Next ==
    \/ gitFetchCLs \/ gitFetchCLsRef \/ gitFetchCLsEnd
    \/ orderCLs
    \/ cherryPickCLs \/ cherryPickSkip \/ cherryPick \/ checkGerrit \/ makeBash
    \/ pushGerrit \/ cherryPickCLsEnd
    \/ gitTagVersion

Spec == Init /\ [][Next]_vars

\* ------------------------------------------------------------ properties
\* The position of CL u in w.CLs.
Pos(u) == CHOOSE k \in 1..Len(CLs) : CLs[k] = u

\* The CLs of the batch that have a commit: the targets gitFetchCLs ranks.
Targets == {cl[u].Commit : u \in Range(CLs)} \ {EmptyCommit}

\* The targets some pass of the loop at line 93 gave a rank.
Ranked == {h \in Targets : rankedIn[h] > 0}

\* C1: whenever orderCLs returns, every prerequisite a CL declares is a CL
\* that stands strictly before it in w.CLs.
PrereqsComeFirst ==
    pc = "cherryPickCLs" =>
        \A k \in 1..Len(CLs) : \A j \in 1..Len(cl[CLs[k]].Prereq) :
            \E m \in 1..(k - 1) : cl[CLs[m]].Num = cl[CLs[k]].Prereq[j]

\* C1 happens: orderCLs returned an order in which a prerequisite of greater
\* rank was pulled ahead of the CL that declares it.
PrereqPulledAhead ==
    /\ pc = "cherryPickCLs"
    /\ \E k \in 1..Len(CLs) : \E m \in 1..(k - 1) :
          /\ cl[CLs[m]].Num \in Range(cl[CLs[k]].Prereq)
          /\ cl[CLs[m]].Order > cl[CLs[k]].Order

\* C6: once gitFetchCLs has ranked the batch, of two targets in the history
\* of one fetched ref the one git log lists first has the greater rank.
RankFollowsWalk ==
    pc = "orderCLs" =>
        \A r \in 1..Len(args) :
            LET lines == GitLog(LocalRef(args[r]))
            IN \A j, k \in 1..Len(lines) :
                  (j < k /\ lines[j] \in Targets /\ lines[k] \in Targets)
                      => order[lines[j]] > order[lines[k]]

\* C7: the refs are walked in the order master, release branch, then the
\* Ref of each CL in the order of w.CLs; a target ranked in an earlier walk
\* has a strictly lower rank than one ranked in a later walk, and a target
\* in master's history a lower rank than every ranked target outside it.
EarlierRefRanksLower ==
    pc = "orderCLs" =>
        /\ args[1].src = "master"
        /\ args[2].src = ReleaseBranch
        /\ \A u \in Range(CLs) :
              cl[u].Ref # "" => \E k \in 3..Len(args) : args[k].src = cl[u].Ref
        /\ \A j, k \in 3..Len(args) :
              j < k => \E u, v \in Range(CLs) :
                          /\ cl[u].Ref = args[j].src
                          /\ cl[v].Ref = args[k].src
                          /\ Pos(u) < Pos(v)
        /\ \A g, h \in Ranked : rankedIn[g] < rankedIn[h] => order[g] < order[h]
        /\ \A g, h \in Ranked :
              (g \in Range(GitLog("gerrit/master")) /\ h \notin Range(GitLog("gerrit/master")))
                  => order[g] < order[h]

\* C7 happens: a target was ranked in the walk of master and another in the
\* walk of the Ref of a CL.
MergedAndPendingRanked ==
    /\ pc = "orderCLs"
    /\ \E g, h \in Ranked : rankedIn[g] = 1 /\ rankedIn[h] >= 3

\* C8 as stated: a rank given in the walk of an earlier ref is never less
\* than a rank given in the walk of a later ref.
EarlierRefNeverLess ==
    pc = "orderCLs" =>
        \A g, h \in Ranked : rankedIn[g] < rankedIn[h] => ~(order[g] < order[h])

\* C8, amended: a rank given in the walk of an earlier ref is never greater
\* than a rank given in the walk of a later ref.
EarlierRefNeverGreater ==
    pc = "orderCLs" =>
        \A g, h \in Ranked : rankedIn[g] < rankedIn[h] => ~(order[g] > order[h])

\* C8 happens: two targets were ranked in the walk of master and a third in
\* the walk of the release branch.
MasterAndReleaseRanked ==
    /\ pc = "orderCLs"
    /\ \E f, g, h \in Ranked : f # g /\ rankedIn[f] = 1 /\ rankedIn[g] = 1 /\ rankedIn[h] = 2

\* How cherryPickCLs can leave a CL, and the two ways a CL is integrated.
Terminal == {"Skipped", "Conflict", "BuildFailed", "Uploaded", "Reused"}
Integrated == {"Uploaded", "Reused"}

\* What cherryPickCLs ran for CL u in this run.
Built(u) == "make.bash" \in Range(calls[u])
Mailed(u) == "mail" \in Range(calls[u])
Adopted(u) == "reset FETCH_HEAD" \in Range(calls[u])
Applied(u) == "cherry-pick" \in Range(calls[u])

\* The second run has started; every CL was integrated by the first.
SecondRunAfterSuccess ==
    /\ run = "second"
    /\ \A u \in Range(CLs) : prev.status[u] \in Integrated

\* C2 as stated: a second run after a first run that integrated every CL
\* mails nothing, runs no make.bash and leaves every CL Reused.
SecondRunDoesNothing ==
    SecondRunAfterSuccess =>
        /\ pc # "panic"
        /\ \A u \in Range(CLs) :
              /\ ~Built(u)
              /\ ~Mailed(u)
              /\ status[u] \in {"Pending", "Reused"}
              /\ pc \in {"gitTagVersion", "done"} => status[u] = "Reused"

\* C2, amended: the same, when the change the first run left for every CL
\* has a TryBot-Result vote of +1 or more.
SecondRunDoesNothingAfterTryBots ==
    (/\ SecondRunAfterSuccess
     /\ \A u \in Range(CLs) : prev.candidate[u][1].Labels["TryBot-Result"] >= 1) =>
        /\ pc # "panic"
        /\ \A u \in Range(CLs) :
              /\ ~Built(u)
              /\ ~Mailed(u)
              /\ status[u] \in {"Pending", "Reused"}
              /\ pc \in {"gitTagVersion", "done"} => status[u] = "Reused"

\* C2 happens: the first run mailed every CL, the trybots passed them all,
\* and the second run has reused every one.
SecondRunReusedUploads ==
    /\ SecondRunAfterSuccess
    /\ pc = "gitTagVersion"
    /\ \A u \in Range(CLs) :
          /\ prev.status[u] = "Uploaded"
          /\ prev.candidate[u][1].Labels["TryBot-Result"] >= 1
          /\ status[u] = "Reused"

\* C3 as stated: a CL whose new commit has the tree and parent of its change
\* on Gerrit is not built, not mailed, and ends Reused.
AdoptedIsReusedUnbuilt ==
    \A u \in Range(CLs) :
        Adopted(u) =>
            /\ ~Built(u)
            /\ ~Mailed(u)
            /\ status[u] \in {"Pending", "Reused"}
            /\ (pc \in {"gitTagVersion", "done"} => status[u] = "Reused")

\* C3, amended: such a CL is never mailed; when its change has a
\* TryBot-Result vote of +1 or more it is not built and ends Reused;
\* otherwise make.bash is run, and it ends Reused if make.bash passes and
\* BuildFailed if not.
AdoptedIsReusedOrBuilt ==
    \A u \in Range(CLs) :
        Adopted(u) =>
            /\ ~Mailed(u)
            /\ IF cl[u].ReleaseBranchGerrit[1].Labels["TryBot-Result"] >= 1
               THEN /\ ~Built(u)
                    /\ status[u] \in {"Pending", "Reused"}
               ELSE /\ status[u] \in {"Pending", "Reused", "BuildFailed"}
                    /\ status[u] # "Pending" => Built(u)
            /\ (pc \in {"gitTagVersion", "done"} => status[u] \in {"Reused", "BuildFailed"})

\* C3 happens: in the first run, one CL's change was adopted and passed
\* by the trybots, another's was adopted, built and kept.
AdoptedWithAndWithoutBuild ==
    /\ run = "first"
    /\ \E u, v \in Range(CLs) :
          /\ Adopted(u) /\ ~Built(u) /\ status[u] = "Reused"
          /\ Adopted(v) /\ Built(v) /\ status[v] = "Reused"

\* C4: the loop goes through w.CLs one CL at a time, in order, and gives
\* each CL its outcome once; after a failed cherry-pick or make.bash it goes
\* on to the next CL; unless the run panics every CL gets an outcome.
EveryCLGetsItsTurn ==
    /\ [][/\ i' # i => (i' = i + 1 \/ (pc = "cherryPickCLs" /\ i' = 1))
          /\ \A u \in DOMAIN status :
                status'[u] # status[u] =>
                    \/ /\ status[u] = "Pending"
                       /\ u = CLs[i]
                       /\ status'[u] \in Terminal
                       /\ i' = i + 1
                       /\ pc' = "cherryPickCLs.loop"
                    \/ /\ pc = "gitTagVersion"
                       /\ status'[u] = "Pending"]_vars
    /\ (pc = "cherryPickCLs")
          ~> (pc = "panic" \/ (pc = "gitTagVersion" /\ \A u \in Range(CLs) : status[u] \in Terminal))
    /\ (\E u \in Range(CLs) : status[u] \in {"Conflict", "BuildFailed"})
          ~> (pc = "panic" \/ \A u \in Range(CLs) : status[u] \in Terminal)

\* C4 happens: a CL failed and a CL after it was integrated.
LaterCLIntegratedAfterFailure ==
    \E j, k \in 1..Len(CLs) :
        /\ j < k
        /\ status[CLs[j]] \in {"Conflict", "BuildFailed"}
        /\ status[CLs[k]] \in Integrated

\* The commit HEAD was at before the cherry-pick of the commit made last.
PreApplyTip == FirstParent(objects[NewHash(nhash - 1)])

\* C5: the step that leaves a CL Conflict or BuildFailed leaves HEAD where
\* it was before the CL's cherry-pick, and changes no other CL.
FailureRestoresTip ==
    [][\A u \in DOMAIN status :
          (status[u] = "Pending" /\ status'[u] \in {"Conflict", "BuildFailed"}) =>
              /\ HEAD' = (IF status'[u] = "Conflict" THEN HEAD ELSE PreApplyTip)
              /\ \A v \in DOMAIN status \ {u} : status'[v] = status[v]
              /\ cl' = cl
              /\ lastRef' = lastRef
              /\ lastCommit' = lastCommit]_vars

\* C9: a CL with a commit that no walk ranked is not cherry-picked and not
\* integrated.
UnrankedIsNotApplied ==
    \A u \in Range(CLs) :
        (/\ pc \notin {"gitFetchCLs", "gitFetchCLs.refs"}
         /\ cl[u].Commit # EmptyCommit
         /\ cl[u].Order = Unresolved) =>
            /\ ~Applied(u)
            /\ status[u] \notin Integrated

\* The CLs of the batch that CL u names as prerequisites, and those it
\* reaches through at most n further prerequisites.
Needs(u) == {v \in Range(CLs) : cl[v].Num \in Range(cl[u].Prereq)}

RECURSIVE Reach(_, _)
Reach(S, n) == IF n = 0 THEN S ELSE Reach(S \cup UNION {Needs(v) : v \in S}, n - 1)

HasCycle == \E u \in Range(CLs) : u \in Reach(Needs(u), Len(CLs))

\* Some CL names a prerequisite that is not in the batch.
HasDangling ==
    \E u \in Range(CLs) : \E k \in 1..Len(cl[u].Prereq) :
        \A v \in Range(CLs) : cl[v].Num # cl[u].Prereq[k]

PastOrderCLs == pc \notin {"gitFetchCLs", "gitFetchCLs.refs", "orderCLs"}

NothingIntegrated ==
    /\ HEAD = BaseHash
    /\ \A u \in Range(CLs) : status[u] = "Pending" /\ calls[u] = <<>>

\* C10 as stated: on a batch with a prerequisite cycle orderCLs panics with
\* "CL cycle", and no CL is integrated.
CycleEndsInCycleError ==
    (HasCycle /\ PastOrderCLs) =>
        /\ pc = "panic"
        /\ fatal = "CL cycle"
        /\ NothingIntegrated

\* C10, amended: on a batch with a prerequisite cycle orderCLs panics, with
\* "CL cycle" or, when a CL of the batch names a prerequisite that is not in
\* it, possibly with the missing-prerequisite message; no CL is integrated.
CycleEndsInPanic ==
    (HasCycle /\ PastOrderCLs) =>
        /\ pc = "panic"
        /\ \/ fatal = "CL cycle"
           \/ fatal = "CL has prereq non-approved CL" /\ HasDangling
        /\ NothingIntegrated

\* C10 happens: orderCLs panicked with "CL cycle" on two CLs that name each
\* other.
TwoCLCycleCaught ==
    /\ pc = "panic"
    /\ fatal = "CL cycle"
    /\ \E u, v \in Range(CLs) : u # v /\ v \in Needs(u) /\ u \in Needs(v)

\* C11: on a batch in which some CL names a prerequisite that is not a CL
\* of the batch, orderCLs panics and returns no order, wherever the rank
\* sort puts that CL.
DanglingPrereqEndsInPanic ==
    (HasDangling /\ pc # "orderCLs") =>
        /\ pc = "panic"
        /\ fatal \in {"CL has prereq non-approved CL", "CL cycle"}
        /\ NothingIntegrated

\* C11 happens: orderCLs panicked on a batch whose only CL with a missing
\* prerequisite was sorted last, behind CLs without prerequisites.
LastCLDanglingCaught ==
    /\ pc = "panic"
    /\ fatal = "CL has prereq non-approved CL"
    /\ \A k \in 1..(Len(CLs) - 1) : cl[CLs[k]].Prereq = <<>>
    /\ cl[CLs[Len(CLs)]].Order > cl[CLs[1]].Order

\* C12: a CL without a commit ends Skipped; the step that skips it runs no
\* command, records nothing, leaves HEAD, lastRef, lastCommit and the CL
\* as they were, and moves the loop to the next CL.
EmptyCommitIsSkipped ==
    /\ [](\A u \in Range(CLs) :
            /\ status[u] = "Skipped" => (cl[u].Commit = EmptyCommit /\ calls[u] = <<>>)
            /\ (cl[u].Commit = EmptyCommit /\ status[u] # "Pending") => status[u] = "Skipped")
    /\ [][\A u \in DOMAIN status :
             (status[u] = "Pending" /\ status'[u] = "Skipped") =>
                 /\ u = CLs[i]
                 /\ i' = i + 1
                 /\ pc' = "cherryPickCLs.loop"
                 /\ UNCHANGED <<calls, HEAD, lastRef, lastCommit, objects, nhash, errors,
                                cl, change, picked, fatal>>]_vars

\* C12 happens: a CL was skipped and the CL after it was cherry-picked and
\* mailed.
SkippedThenUploaded ==
    \E j, k \in 1..Len(CLs) :
        /\ j < k
        /\ status[CLs[j]] = "Skipped"
        /\ status[CLs[k]] = "Uploaded"

NeededBy(w) == Reach(Needs(w), Len(CLs))

\* The batch of the example: A of rank 3, B of rank 1 after C, C of rank 5,
\* as CLs 1, 2, 3 with the ranks 2, 1, 3.
ExampleBatch ==
    /\ Len(CLs) = 3
    /\ cl[1].Order = 2 /\ cl[1].Prereq = <<>>
    /\ cl[2].Order = 1 /\ cl[2].Prereq = <<3>>
    /\ cl[3].Order = 3 /\ cl[3].Prereq = <<>>

\* The batch of the doc comment: CLs 1 to 6 in master order, CL 3 after CL 6.
SixCLExample ==
    [u \in 1..6 |-> [Num |-> u, Order |-> u, Prereq |-> IF u = 3 THEN <<6>> ELSE <<>>]]

\* C14: in the order orderCLs returns, a CL v stands before a CL u of
\* lower rank only if v is needed, directly or through other CLs, by a CL
\* whose rank is at most that of u; a batch without prerequisites comes out
\* in ascending rank; the example batch comes out as C, B, A and the batch
\* of the doc comment as 1 2 6 3 4 5.
PulledOnlyWhenNeeded ==
    pc = "cherryPickCLs" =>
        /\ \A j, k \in 1..Len(CLs) :
              (j < k /\ cl[CLs[k]].Order < cl[CLs[j]].Order) =>
                  \E w \in Range(CLs) :
                      /\ cl[w].Order <= cl[CLs[k]].Order
                      /\ CLs[j] \in NeededBy(w)
        /\ (\A u \in Range(CLs) : cl[u].Prereq = <<>>) =>
              \A j, k \in 1..Len(CLs) : j < k => cl[CLs[j]].Order <= cl[CLs[k]].Order
        /\ ExampleBatch => CLs = <<3, 2, 1>>
        /\ Resolve(<<1, 2, 3, 4, 5, 6>>, SixCLExample).order = <<1, 2, 6, 3, 4, 5>>

\* C14 happens: orderCLs returned an order for the example batch.
ExampleBatchOrdered ==
    /\ pc = "cherryPickCLs"
    /\ ExampleBatch

\* C15: the order orderCLs returns holds every CL of the batch exactly
\* once (the batch is the CLs 1 to OrderBatch); and the check at the end of
\* the traversal panics on every order shorter than the batch.
OrderIsPermutation ==
    /\ pc = "cherryPickCLs" =>
          /\ Len(CLs) = OrderBatch
          /\ Range(CLs) = 1..OrderBatch
          /\ \A j, k \in 1..Len(CLs) : j # k => CLs[j] # CLs[k]
    /\ pc = "orderCLs" =>
          \A p \in SortSlice(CLs, cl) : \A n \in 0..(Len(p) - 1) :
              CheckDropped([WalkStart EXCEPT !.order = SubSeq(p, 1, n)], p).panic
                  = "dropped CLs during ordering"

\* C15 happens: orderCLs returned an order that is not the order of the
\* batch.
BatchReordered ==
    /\ pc = "cherryPickCLs"
    /\ \E k \in 1..Len(CLs) : CLs[k] # k
    /\ \E u \in Range(CLs) : cl[u].Prereq # <<>>

\* C16: when topGerritCL does not get exactly one change for HEAD, or a
\* commit read by treeAndParentOfCommit has no tree or no parent, the run
\* panics there: the CL at hand gets no outcome, no CL after it is
\* cherry-picked, built or mailed, and nothing happens after the panic.
PanicHaltsTheRun ==
    /\ [](pc = "panic" =>
            /\ fatal \in {"cannot find git HEAD on Gerrit",
                          "getCommitInfo: malformed commit blob"}
            /\ status[CLs[i]] = "Pending"
            /\ \A k \in (i + 1)..Len(CLs) :
                  status[CLs[k]] = "Pending" /\ calls[CLs[k]] = <<>>)
    /\ [](\A h \in DOMAIN objects :
            (\/ treeAndParentOfCommit(objects[h]).tree = <<>>
             \/ treeAndParentOfCommit(objects[h]).parent = <<>>) => pc = "panic")
    /\ [](\A u \in Range(CLs) :
            /\ Len(cl[u].ReleaseBranchGerrit) <= 1
            /\ status[u] = "Uploaded" => Len(cl[u].ReleaseBranchGerrit) = 1)
    /\ [][pc # "panic"]_vars

\* C16 happens: the run panicked in topGerritCL after mailing a CL that is
\* not the last one.
PanicAfterMail ==
    /\ pc = "panic"
    /\ fatal = "cannot find git HEAD on Gerrit"
    /\ i < Len(CLs)
    /\ Mailed(CLs[i])

\* C17: the step that integrates a CL records the warning "missing
\* Code-Review +2" for it exactly when the Code-Review vote of its change is
\* below +2; with or without the warning the commit of the change stays at
\* HEAD, lastRef and lastCommit move to it, the loop goes on, and the next
\* cherry-pick is made on top of it.
LowReviewOnlyWarns ==
    /\ [][\A u \in DOMAIN status :
             (status[u] = "Pending" /\ status'[u] \in Integrated) =>
                 LET c == cl'[u].ReleaseBranchGerrit[1]
                 IN /\ errors' = IF c.Labels["Code-Review"] < 2
                                 THEN Append(errors, Warning(u, "missing Code-Review +2"))
                                 ELSE errors
                    /\ HEAD' = HEAD
                    /\ lastCommit' = c.CurrentRevision
                    /\ lastRef' = c.Revisions[c.CurrentRevision].Ref
                    /\ cl'[u].ReleaseBranchCL = c.ChangeNumber
                    /\ i' = i + 1
                    /\ pc' = "cherryPickCLs.loop"]_vars
    /\ [][(pc = "cherryPickCLs.loop" /\ pc' = "cherryPickCLs.check") =>
             FirstParent(objects'[HEAD']) = HEAD]_vars

\* C17 happens: a CL was integrated with the warning recorded, and the CL
\* after it was cherry-picked onto its commit and integrated too.
WarnedThenBuiltUpon ==
    \E j \in 1..(Len(CLs) - 1) :
        /\ status[CLs[j]] \in Integrated
        /\ status[CLs[j + 1]] \in Integrated
        /\ \E e \in 1..Len(errors) : errors[e] = Warning(CLs[j], "missing Code-Review +2")
        /\ TreeOf(objects[HEAD]) = {cl[CLs[j]].Commit, cl[CLs[j + 1]].Commit}

\* C18: gitTagVersion pushes the tag only when git tag succeeded; when git
\* tag fails the failure is recorded, nothing is pushed, and the run ends
\* without a panic.
TagPushedOnlyWhenMade ==
    /\ release.pushed => release.tagged
    /\ pc = "done" =>
          /\ fatal = ""
          /\ ~release.tagged =>
                (errors # <<>> /\ errors[Len(errors)] = Warning(0, "git tag failed"))
          /\ release.tagged =>
                \A e \in 1..Len(errors) : errors[e] # Warning(0, "git tag failed")

\* C18 happens: git tag failed at the end of a run that had mailed a CL.
TagFailedAfterUpload ==
    /\ pc = "done"
    /\ ~release.tagged
    /\ \E u \in Range(CLs) : status[u] = "Uploaded"

\* C19 as stated: at the end of a first run, the CLs that ended Skipped,
\* Conflict or BuildFailed have no change on the release branch recorded,
\* and those that ended Reused or Uploaded have one.
FailedCLsCarryNoChange ==
    (run = "first" /\ pc \in {"gitTagVersion", "done"}) =>
        \A u \in Range(CLs) :
            /\ status[u] \in {"Skipped", "Conflict", "BuildFailed"}
                  => cl[u].ReleaseBranchGerrit = <<>>
            /\ status[u] \in Integrated => cl[u].ReleaseBranchGerrit # <<>>

\* C19, amended: cherryPickCLs writes the change of a CL only in the step
\* that integrates it: a CL that ends Skipped, Conflict or BuildFailed keeps
\* what it came with (nothing, or its candidate), and a CL that ended
\* Reused or Uploaded has its change and the number of that change recorded.
ChangeWrittenOnlyOnSuccess ==
    /\ [](\A u \in Range(CLs) :
            status[u] \in Integrated =>
                /\ Len(cl[u].ReleaseBranchGerrit) = 1
                /\ cl[u].ReleaseBranchCL = cl[u].ReleaseBranchGerrit[1].ChangeNumber)
    /\ [][\A u \in DOMAIN cl :
             cl'[u] # cl[u] => (status[u] = "Pending" /\ status'[u] \in Integrated)]_vars

\* C19 happens: at the end of a first run one CL with a candidate ended in
\* Conflict or BuildFailed, still with its candidate, and another was mailed.
CandidateKeptAfterFailure ==
    /\ run = "first"
    /\ pc = "gitTagVersion"
    /\ \E u, v \in Range(CLs) :
          /\ status[u] \in {"Conflict", "BuildFailed"}
          /\ cl[u].ReleaseBranchGerrit # <<>>
          /\ status[v] = "Uploaded"

\* C20: make.bash is skipped for a CL exactly when its change on Gerrit was
\* adopted and that change has TryBot-Result >= +1.  A CL that was applied
\* with no change on Gerrit, with a change that was discarded (whatever its
\* vote), or with an adopted change voted below +1, is built before it is
\* mailed or kept.
BuildSkippedOnlyWhenTrusted ==
    /\ pc = "cherryPickCLs.push" =>
          (Built(CLs[i]) <=>
              ~(Adopted(CLs[i]) /\ change[1].Labels["TryBot-Result"] >= 1))
    /\ \A u \in Range(CLs) :
          /\ status[u] = "Uploaded" => (Built(u) /\ ~Adopted(u))
          /\ status[u] = "Reused" =>
                /\ Adopted(u)
                /\ Built(u) <=> cl[u].ReleaseBranchGerrit[1].Labels["TryBot-Result"] < 1
          /\ status[u] = "BuildFailed" => Built(u)
          /\ Built(u) => Applied(u)

\* C20 happens: a CL whose change on Gerrit has TryBot-Result >= +1 but was
\* discarded has been built and is about to be mailed.
DiscardedTrustedWasBuilt ==
    /\ pc = "cherryPickCLs.push"
    /\ cl[CLs[i]].ReleaseBranchGerrit # <<>>
    /\ cl[CLs[i]].ReleaseBranchGerrit[1].Labels["TryBot-Result"] >= 1
    /\ ~Adopted(CLs[i])
    /\ Built(CLs[i])

\* How many times git mail ran for CL u in this run.
Mails(u) == Cardinality({k \in 1..Len(calls[u]) : calls[u][k] = "mail"})
RolledBack(u) == "reset HEAD^" \in Range(calls[u])

\* C21: a CL is mailed exactly when its cherry-pick succeeded, no change was
\* adopted for it and make.bash succeeded in this run.  A CL that ended
\* Skipped, in Conflict or BuildFailed, or whose change was adopted, is not
\* mailed, and no CL is mailed twice in a run.
MailedOnlyWhenBuiltAnew ==
    \A u \in Range(CLs) :
        /\ Mailed(u) => (Applied(u) /\ ~Adopted(u) /\ Built(u) /\ ~RolledBack(u))
        /\ (Applied(u) /\ ~Adopted(u) /\ Built(u) /\ ~RolledBack(u)
              /\ ~(pc = "cherryPickCLs.push" /\ CLs[i] = u)) => Mailed(u)
        /\ status[u] \in {"Skipped", "Conflict", "BuildFailed", "Reused"} => ~Mailed(u)
        /\ status[u] = "Uploaded" => Mailed(u)
        /\ Adopted(u) => ~Mailed(u)
        /\ Mails(u) <= 1

\* C21 happens: in one run a CL was mailed, and another, adopted or with a
\* failed build, was not.
OneMailedOneNot ==
    \E u, v \in Range(CLs) :
        /\ status[u] = "Uploaded" /\ Mails(u) = 1
        /\ status[v] \in {"Reused", "BuildFailed"} /\ Mails(v) = 0

\* Where the loops at lines 97 and 107 break: the first line of the walk
\* that has a rank, or past the last line.
FirstRanked(lines, ord) ==
    IF \E k \in 1..Len(lines) : Lookup(ord, lines[k]) > 0
    THEN CHOOSE k \in 1..Len(lines) :
             /\ Lookup(ord, lines[k]) > 0
             /\ \A j \in 1..(k - 1) : Lookup(ord, lines[j]) <= 0
    ELSE Len(lines) + 1

\* C22: a pass of the loop over args[3:] gives a rank to exactly the
\* commits of order that are unresolved and stand in the ref's git log
\* before its first ranked line; an unresolved commit at or after a ranked
\* line keeps -1 in that pass, and a rank once given is never changed.
PassStopsAtFirstRanked ==
    [][(pc = "gitFetchCLs.refs" /\ ri <= Len(args)) =>
          LET lines == GitLog(LocalRef(args[ri]))
              stop == FirstRanked(lines, order)
          IN /\ DOMAIN order' = DOMAIN order
             /\ \A h \in DOMAIN order :
                   /\ order'[h] # order[h] <=>
                         (order[h] = Unresolved /\ \E k \in 1..(stop - 1) : lines[k] = h)
                   /\ order[h] > 0 => order'[h] = order[h]
                   /\ order'[h] # order[h] => order'[h] > 0]_vars

\* C22 happens: the pass just made walked over a commit ranked by an
\* earlier pass and, after it, over an unresolved target, which it left
\* unresolved.
PassLeftTargetBehindRanked ==
    /\ pc = "gitFetchCLs.refs"
    /\ ri > 1
    /\ LET lines == GitLog(LocalRef(args[ri - 1]))
       IN \E j, k \in 1..Len(lines) :
             /\ j < k
             /\ lines[j] \in Targets /\ rankedIn[lines[j]] \in 1..(ri - 2)
             /\ lines[k] \in Targets /\ order[lines[k]] = Unresolved

\* The lines a pass ranks: those before the first ranked line whose order is -1.
Unranked(lines, ord) ==
    {k \in 1..(FirstRanked(lines, ord) - 1) : Lookup(ord, lines[k]) = Unresolved}

\* The commits of order that have a rank.
Resolved == {h \in DOMAIN order : order[h] > 0}

\* C23: a pass that finds n unresolved commits while the counter is next
\* gives them exactly next+1..next+n, the newest next+n and older ones
\* less, and leaves next at next+n.  After gitFetchCLs every rank is
\* positive or -1, different commits have different ranks, the ranks are
\* exactly 1..N for N ranked commits, and each CL has the rank of its commit.
RanksAreOneToN ==
    /\ [][(pc = "gitFetchCLs.refs" /\ ri <= Len(args)) =>
             LET lines == GitLog(LocalRef(args[ri]))
                 U == Unranked(lines, order)
                 n == Cardinality(U)
             IN /\ next' = next + n
                /\ {order'[lines[k]] : k \in U} = (next + 1)..(next + n)
                /\ \A j, k \in U : j < k => order'[lines[j]] > order'[lines[k]]
                /\ \A k \in U : (\A j \in U : k <= j) => order'[lines[k]] = next + n]_vars
    /\ [](pc = "orderCLs" =>
             /\ \A h \in DOMAIN order : order[h] > 0 \/ order[h] = Unresolved
             /\ \A h, g \in Resolved : h # g => order[h] # order[g]
             /\ {order[h] : h \in Resolved} = 1..Cardinality(Resolved)
             /\ next = Cardinality(Resolved)
             /\ \A u \in Range(CLs) : cl[u].Order = order[cl[u].Commit])

\* C23 happens: gitFetchCLs has returned, two commits were ranked by
\* different passes and a third was found by none.
TwoPassesRankedOneUnresolved ==
    /\ pc = "orderCLs"
    /\ \E h, g, f \in Targets :
          /\ rankedIn[h] > 0 /\ rankedIn[g] > rankedIn[h]
          /\ order[g] > order[h]
          /\ order[f] = Unresolved

\* The positions before k in w.CLs whose CL this run has integrated.
IntegratedBefore(k) == {j \in 1..(k - 1) : status[CLs[j]] \in Integrated}

\* The errors that are failure reports (lines 215-220 and 257-263).
FailureReports == {k \in 1..Len(errors) : "lastRef" \in DOMAIN errors[k]}

\* C24: lastRef and lastCommit start as the release branch and
\* origin/<release branch> and change only in the step that ends a CL
\* Reused or Uploaded, to the ref and the revision of that CL's change.
\* Every report of a failed cherry-pick or make.bash names the change of the
\* last CL integrated before the failing one, or the release branch when
\* there is none, and the failing CL's own Ref and Commit.
ReportsNameLastIntegrated ==
    /\ [][/\ pc = "cherryPickCLs" =>
                (lastRef' = ReleaseBranch /\ lastCommit' = "origin/" \o ReleaseBranch)
          /\ (pc # "cherryPickCLs" /\ <<lastRef, lastCommit>>' # <<lastRef, lastCommit>>) =>
                /\ status[CLs[i]] = "Pending"
                /\ status'[CLs[i]] \in Integrated
                /\ LET c == cl'[CLs[i]].ReleaseBranchGerrit[1]
                   IN /\ lastRef' = c.Revisions[c.CurrentRevision].Ref
                      /\ lastCommit' = c.CurrentRevision
          /\ \A u \in DOMAIN status :
                (status[u] = "Pending" /\ status'[u] \in Terminal \ Integrated) =>
                    UNCHANGED <<lastRef, lastCommit>>]_vars
    /\ [](\A k \in FailureReports :
            LET e == errors[k]
                before == IntegratedBefore(Pos(e.cl))
            IN /\ e.Ref = cl[e.cl].Ref
               /\ e.Commit = cl[e.cl].Commit
               /\ status[e.cl] \in {"Conflict", "BuildFailed"}
               /\ IF before = {}
                  THEN e.lastRef = ReleaseBranch /\ e.lastCommit = "origin/" \o ReleaseBranch
                  ELSE LET c == cl[CLs[Max(before)]].ReleaseBranchGerrit[1]
                       IN /\ e.lastRef = c.Revisions[c.CurrentRevision].Ref
                          /\ e.lastCommit = c.CurrentRevision)

\* C24 happens: a CL failed after another was integrated, and its report
\* names that CL's change.
FailureAfterIntegration ==
    \E k \in FailureReports :
        /\ IntegratedBefore(Pos(errors[k].cl)) # {}
        /\ errors[k].lastRef # ReleaseBranch

\* The work branch as git log --first-parent HEAD lists it, oldest commit
\* first, down to the commits gitwork has no object for.
RECURSIVE Branch(_, _)
Branch(h, fuel) ==
    IF h \notin DOMAIN objects \/ fuel = 0 THEN <<>>
    ELSE Branch(FirstParent(objects[h]), fuel - 1) \o <<h>>

\* The parents of a commit object.
ParentsOf(lines) == {lines[k].val : k \in {j \in 1..Len(lines) : lines[j].key = "parent"}}

IsIntegrated(u) == status[u] \in Integrated

\* The revisions of the changes of the first k CLs that were integrated, in the order of w.CLs.
IntegratedRevisions(k) ==
    LET done == SelectSeq(SubSeq(CLs, 1, k), IsIntegrated)
    IN [j \in 1..Len(done) |-> cl[done[j]].ReleaseBranchGerrit[1].CurrentRevision]

\* C25: when the loop of cherryPickCLs has finished the first k CLs, the
\* work branch is origin/<release branch> followed by one commit for each
\* of those CLs that ended Reused or Uploaded, in the order of w.CLs, each
\* the child of the one before it, and nothing for a CL that ended Skipped,
\* in Conflict or BuildFailed; the commit of a Reused CL is the revision of
\* its adopted change.
BranchIsBasePlusIntegrated ==
    pc \in {"cherryPickCLs.loop", "gitTagVersion"} =>
        LET stack == <<BaseHash>> \o IntegratedRevisions(i - 1)
        IN /\ Branch(HEAD, Len(CLs) + 2) = stack
           /\ \A k \in 2..Len(stack) : ParentsOf(objects[stack[k]]) = {stack[k - 1]}

====
